---- MODULE Spec2Model ----
(***************************************************************************)
(* Streaming inner hash join of polars-pipe:                               *)
(*   src/polars/polars-lazy/polars-pipe/src/executors/sinks/joins/inner.rs *)
(* GenericBuild (the build sink: sink, combine, split, finalize) and       *)
(* InnerJoinProbe (the probe operator: execute).                           *)
(*                                                                         *)
(* Indices are 0-based as in the source (chunk_idx, df_idx, partition);    *)
(* TLA+ sequences are 1-based, so position i of a Vec is element i+1.      *)
(* A column value is an integer in its physical representation; a data     *)
(* frame is the sequence of its rows, row r holding the value of join      *)
(* key j at position j.                                                    *)
(***************************************************************************)
EXTENDS Integers, Sequences, FiniteSets, TLC

\* ------------------------------------------------------------- bounds
MaxKeys == 2        \* join keys n ranges over 1..MaxKeys
MaxVal == 2         \* key values range over 1..MaxVal
MaxRows == 2        \* rows per batch range over 1..MaxRows
MaxBatches == 3     \* number of sink() calls in one behaviour
MaxBuildRows == 3   \* rows the sinks of the lineage retain together
NumSinks == 2       \* build sinks of one split lineage
NumPartitions == 2  \* what _set_partition_size() returns
HashMod == 4        \* hashes are kept modulo HashMod (u64 in the source)
MaxSeed == 1        \* RandomState seeds range over 0..MaxSeed
MaxNames == 3       \* distinct column names
NumClones == 2      \* clones split off the probe operator
MaxCols == 2        \* columns of a batch whose layout varies
MaxCalls == 3       \* execute() calls counted on one operator

Vals == 1..MaxVal
SinkIds == 1..NumSinks
CloneIds == 1..NumClones
JoinTypes == {"Inner", "Left"}

\* column names; the result of join-key expression j is named KeyNames(n)[j]
\* unless the configuration says otherwise
AllNames == <<"a", "b", "c", "d">>
KeyNames(n) == [j \in 1..n |-> AllNames[j]]
NameSet == {AllNames[j] : j \in 1..MaxNames}
Suffixes == {"_x", "_y"}

\* the column layouts of a frame: distinct names, 1..MaxCols of them
Layouts ==
    UNION {{c \in [1..w -> NameSet] :
                \A i \in 1..w, j \in 1..w : c[i] = c[j] => i = j} :
           w \in 1..MaxCols}

\* a batch: the values its rows give to the join-key expressions, and the
\* names of its columns in order
DataChunk(data, columns) == [data |-> data, columns |-> columns]

\* what a read through get_unchecked past the end of a buffer can yield:
\* any value of the column's type, 0 standing for one that no batch holds
UBVals == 0..MaxVal

Rows(n) == [1..n -> Vals]
Frames(n) == UNION {[1..r -> Rows(n)] : r \in 1..MaxRows}

VARIABLES
    nkeys,      \* join_columns_left.len() = join_columns_right.len()
    join_type,  \* GenericBuild.join_type
    sinks,      \* the GenericBuild instances, by id
    probe,      \* the InnerJoinProbe returned by the latest finalize
    out,        \* the data of the chunk returned by the latest execute
    res,        \* the latest call and what it returned
    ncalls,     \* number of sink() calls so far (of execute() calls in SpecProbe)
    out_cols,   \* the columns of the chunk returned by the latest execute
    clones      \* the scratch state of the clones split off the operator

vars == <<nkeys, join_type, sinks, probe, out, res, ncalls, out_cols, clones>>

\* ------------------------------------------------- external collaborators

\* PhysicalPipedExpr::evaluate followed by to_physical_repr and rechunk:
\* join-key expression j selects column j of the batch
Evaluate(j, data) == [r \in 1..Len(data) |-> data[r][j]]

RECURSIVE SumTo(_, _)
SumTo(f, k) == IF k = 0 THEN 0 ELSE f[k] + SumTo(f, k - 1)

\* the combined row hash under seed hb: a pure function of the key values
RowHash(hb, tuple) == (hb + SumTo(tuple, Len(tuple))) % HashMod

\* hash_series(&join_series, &mut hashes, &hb): one hash per row
hash_series(join_series, hb) ==
    [r \in 1..Len(join_series[1]) |->
        RowHash(hb, [j \in 1..Len(join_series) |-> join_series[j][r]])]

hash_to_partition(h, n_partitions) == h % n_partitions

_set_partition_size == NumPartitions

\* a mutant of Partition: every row goes to the first partition
Partition_first(h, hash_tables) == 0

\* hash_to_partition(*h, self.hash_tables.len())
Partition(h, hash_tables) == hash_to_partition(h, Len(hash_tables))


\* ------------------------------------------------------------ Key, compare_fn

Key(hash, chunk_idx, df_idx) ==
    [hash |-> hash, chunk_idx |-> chunk_idx, df_idx |-> df_idx]

Min(a, b) == IF a < b THEN a ELSE b

\* cols.get_unchecked(pos).get_unchecked(idx): the value when both indices
\* are in range, any value otherwise (the read is unchecked)
ColValue(cols, pos, idx) ==
    IF pos < Len(cols) /\ idx < Len(cols[pos + 1])
    THEN {cols[pos + 1][idx + 1]}
    ELSE UBVals

\* a mutant of compare_fn: the hash alone decides
compare_fn_hash_only(key, h, join_columns_all_chunks, current_row, n_join_cols) ==
    {key.hash = h}

\* the results compare_fn can return (one when every read is in range)
compare_fn(key, h, join_columns_all_chunks, current_row, n_join_cols) ==
    LET chunk_idx == key.chunk_idx * n_join_cols
        df_idx == key.df_idx
        m == Min(n_join_cols, Len(current_row))
        column(j) == ColValue(join_columns_all_chunks, chunk_idx + j - 1, df_idx)
    IN  IF key.hash # h
        THEN {FALSE}
        ELSE {b \in BOOLEAN :
                IF b THEN \A j \in 1..m : current_row[j] \in column(j)
                     ELSE \E j \in 1..m : column(j) # {current_row[j]}}

\* the key tuples get_tuple can leave in buf
get_tuple(materialized_join_cols, number_of_keys, chunk_idx, df_idx) ==
    {buf \in [1..number_of_keys -> UBVals] :
        \A j \in 1..number_of_keys :
            buf[j] \in ColValue(materialized_join_cols, chunk_idx + j - 1, df_idx)}

\* ------------------------------------------------------ the raw-entry map
\* A PlIdHashMap<Key, Vec<ChunkId>> is the set of its entries [key, val].
\* from_hash(h, eq) returns the first entry in probe order on which eq is
\* true: any entry on which compare_fn can be true, or no entry when
\* compare_fn can be false on all of them.

Vacant == [occupied |-> FALSE, entry |-> [key |-> Key(0, 0, 0), val |-> <<>>]]

from_hash(table, h, cols, current_row, n_join_cols) ==
    {[occupied |-> TRUE, entry |-> e] :
        e \in {x \in table :
                TRUE \in compare_fn(x.key, h, cols, current_row, n_join_cols)}}
    \cup
    (IF \A x \in table :
            FALSE \in compare_fn(x.key, h, cols, current_row, n_join_cols)
     THEN {Vacant} ELSE {})

\* a mutant of Upsert: an occupied entry is left as it is
Upsert_no_extend(table, entry, key, payload) ==
    IF entry.occupied
    THEN table
    ELSE table \cup {[key |-> key, val |-> payload]}

\* match entry { Vacant => insert(key, payload), Occupied => extend(payload) }
Upsert(table, entry, key, payload) ==
    IF entry.occupied
    THEN (table \ {entry.entry})
            \cup {[entry.entry EXCEPT !.val = @ \o payload]}
    ELSE table \cup {[key |-> key, val |-> payload]}

\* a mutant of Shift: the chunk index is kept
Shift_none(loc, chunks_offset) == loc

\* [chunk_idx + chunks_offset, df_idx]
Shift(loc, chunks_offset) == <<loc[1] + chunks_offset, loc[2]>>

\* ------------------------------------------------------------ GenericBuild

EmptyTables == [p \in 1.._set_partition_size |-> {}]

\* GenericBuild::new; hb is the RandomState that Default::default() draws
new(suffix, jt, swapped, join_columns_left, join_columns_right, hb) ==
    [st |-> "active", chunks |-> <<>>, materialized_join_cols |-> <<>>,
     hash_tables |-> EmptyTables, hb |-> hb,
     suffix |-> suffix, join_type |-> jt, swapped |-> swapped,
     join_columns_left |-> join_columns_left,
     join_columns_right |-> join_columns_right]

\* a sink that does not exist (not yet split off, or moved into combine)
NoSink(st) ==
    [st |-> st, chunks |-> <<>>, materialized_join_cols |-> <<>>,
     hash_tables |-> <<>>, hb |-> 0,
     suffix |-> "", join_type |-> "", swapped |-> FALSE,
     join_columns_left |-> <<>>, join_columns_right |-> <<>>]

\* GenericBuild::set_join_series. fail = 0: every expression evaluates;
\* fail = j: the evaluation of expression j returns Err.
set_join_series(materialized_join_cols, data, n, fail) ==
    LET pushed == IF fail = 0 THEN n ELSE fail - 1
        series == [j \in 1..pushed |-> Evaluate(j, data)]
    IN  [ok |-> fail = 0,
         cols |-> materialized_join_cols \o series,
         join_series |-> series]

\* the loop of sink over the rows of the batch, from row r on:
\* the hash tables it can end with
RECURSIVE SinkRows(_, _, _, _, _, _, _)
SinkRows(tables, cols, join_series, hashes, current_chunk_offset, r, n_join_cols) ==
    IF r > Len(hashes)
    THEN {tables}
    ELSE
        LET h == hashes[r]
            current_tuple_buf == [j \in 1..n_join_cols |-> join_series[j][r]]
            current_df_idx == r - 1
            partition == Partition(h, tables)
            payload == <<current_chunk_offset, current_df_idx>>
            key == Key(h, current_chunk_offset, current_df_idx)
        IN  UNION {
              SinkRows([tables EXCEPT ![partition + 1] =
                            Upsert(@, entry, key, <<payload>>)],
                       cols, join_series, hashes, current_chunk_offset,
                       r + 1, n_join_cols) :
              entry \in from_hash(tables[partition + 1], h, cols,
                                  current_tuple_buf, n_join_cols)}

\* GenericBuild::sink: the (sink state, result) pairs it can end with.
\* With no hash table left (a sink already finalized) the unchecked access
\* to the partition is undefined: nothing is known of the call's result, and
\* the sink is kept as it was.
sink(self, chunk, n, fail) ==
    LET sjs == set_join_series(self.materialized_join_cols, chunk.data, n, fail)
        hashes == hash_series(sjs.join_series, self.hb)
        stored == [self EXCEPT !.materialized_join_cols = sjs.cols]
    IN  IF ~sjs.ok
        THEN {[self |-> stored, status |-> "Err"]}
        ELSE IF Len(self.hash_tables) = 0
        THEN {[self |-> self, status |-> "undefined"]}
        ELSE {[self |-> [stored EXCEPT !.hash_tables = t,
                                       !.chunks = Append(@, chunk)],
               status |-> "CanHaveMoreInput"] :
                t \in SinkRows(self.hash_tables, sjs.cols, sjs.join_series,
                               hashes, Len(self.chunks), 1, n)}


\* the tuples tuple_buf can hold after combine's loop over val: get_tuple
\* clears the buffer on every call, so the last locator of val decides
TupleBuf(other, n, val) ==
    get_tuple(other.materialized_join_cols, n,
              val[Len(val)][1], val[Len(val)][2])

\* a mutant of ShiftAll: only the first locator of the list is taken over
ShiftAll_head(val, chunks_offset) == <<Shift(val[1], chunks_offset)>>

\* val.iter().map(|[chunk_idx, val_idx]| [*chunk_idx + chunks_offset, *val_idx])
ShiftAll(val, chunks_offset) ==
    [i \in 1..Len(val) |-> Shift(val[i], chunks_offset)]

\* combine's loop over the entries of one partition of other that are
\* still to be visited (the map iterates in an order of its own):
\* the tables self's partition can end as
RECURSIVE CombineTable(_, _, _, _, _, _)
CombineTable(ht, other_ht, other, cols, chunks_offset, n) ==
    IF other_ht = {}
    THEN {ht}
    ELSE UNION {
        LET h == e.key.hash
            key == Key(h, e.val[1][1] + chunks_offset, e.val[1][2])
            payload == ShiftAll(e.val, chunks_offset)
        IN  UNION { UNION {
                CombineTable(Upsert(ht, entry, key, payload),
                             other_ht \ {e}, other, cols, chunks_offset, n) :
                entry \in from_hash(ht, h, cols, tuple_buf, Len(tuple_buf))} :
              tuple_buf \in TupleBuf(other, n, e.val)} :
        e \in other_ht}

\* self.hash_tables.iter_mut().zip(&other.hash_tables): partition p of other
\* goes into partition p of self; the zip ends with the shorter of the two
ZipTables(self, other, cols, chunks_offset, n) ==
    LET both == Min(Len(self.hash_tables), Len(other.hash_tables))
        merged(p) == IF p <= both
                     THEN CombineTable(self.hash_tables[p], other.hash_tables[p],
                                       other, cols, chunks_offset, n)
                     ELSE {self.hash_tables[p]}
    IN  {t \in [1..Len(self.hash_tables) ->
                    UNION {merged(p) : p \in 1..Len(self.hash_tables)}] :
            \A p \in 1..Len(self.hash_tables) : t[p] \in merged(p)}

\* a mutant of combine: the join columns of other are not taken over
combine_keep_cols(self, other, n) ==
    LET chunks_offset == Len(self.chunks)
        chunks == self.chunks \o other.chunks
        cols == self.materialized_join_cols
    IN  {[self EXCEPT !.chunks = chunks,
                      !.hash_tables = t] :
            t \in ZipTables(self, other, cols, chunks_offset, n)}

\* GenericBuild::combine: the states self can end in
combine(self, other, n) ==
    LET chunks_offset == Len(self.chunks)
        chunks == self.chunks \o other.chunks
        cols == self.materialized_join_cols \o other.materialized_join_cols
    IN  {[self EXCEPT !.chunks = chunks,
                      !.materialized_join_cols = cols,
                      !.hash_tables = t] :
            t \in ZipTables(self, other, cols, chunks_offset, n)}

\* a mutant of split: the seed that new drew is kept
split_own_seed(self) ==
    new(self.suffix, self.join_type, self.swapped,
        self.join_columns_left, self.join_columns_right,
        (self.hb + 1) % (MaxSeed + 1))

\* GenericBuild::split
split(self) ==
    [new(self.suffix, self.join_type, self.swapped,
         self.join_columns_left, self.join_columns_right, self.hb)
        EXCEPT !.hb = self.hb]

\* ---------------------------------------------------------- InnerJoinProbe

\* Option<Vec<usize>>
None == [some |-> FALSE, idx |-> <<>>]
Some(idx) == [some |-> TRUE, idx |-> idx]

NoProbe ==
    [live |-> FALSE, left_df |-> <<>>, materialized_join_cols |-> <<>>,
     hash_tables |-> <<>>, hb |-> 0,
     join_tuples_left |-> <<>>, join_tuples_right |-> <<>>,
     suffix |-> "", swapped |-> FALSE, join_columns_right |-> <<>>,
     join_column_idx |-> None]

\* accumulate_dataframes_vertical_unchecked: the chunks stacked, not rechunked
accumulate_dataframes_vertical_unchecked(chunks) == chunks

\* a mutant of IsInner: every join kind takes the arm of JoinType::Inner
IsInner_any(jt) == TRUE

\* the match of finalize on join_type
IsInner(jt) == jt = "Inner"

\* GenericBuild::finalize: the sink it leaves (its buffers taken) and the
\* operator it returns, or the panic of unimplemented!()
finalize(self, jt) ==
    IF IsInner(jt)
    THEN [status |-> "Operator",
          self |-> [self EXCEPT !.chunks = <<>>,
                                !.materialized_join_cols = <<>>,
                                !.hash_tables = <<>>],
          operator |->
            [live |-> TRUE,
             left_df |-> accumulate_dataframes_vertical_unchecked(self.chunks),
             materialized_join_cols |-> self.materialized_join_cols,
             hash_tables |-> self.hash_tables,
             hb |-> self.hb,
             join_tuples_left |-> <<>>,
             join_tuples_right |-> <<>>,
             suffix |-> self.suffix,
             swapped |-> self.swapped,
             join_columns_right |-> self.join_columns_right,
             join_column_idx |-> None]]
    ELSE [status |-> "panic", self |-> self, operator |-> NoProbe]

\* DataFrame::find_idx_by_name: the position (0-based) of the column of
\* that name, as a set that is empty when there is none
find_idx_by_name(columns, name) ==
    {i - 1 : i \in {k \in 1..Len(columns) :
                      /\ columns[k] = name
                      /\ \A m \in 1..(k - 1) : columns[m] # name}}

\* join_series.iter().filter_map(|s| chunk.data.find_idx_by_name(s.name())),
\* from series j on
RECURSIVE FilterMapIdx(_, _, _)
FilterMapIdx(names, columns, j) ==
    IF j > Len(names) THEN <<>>
    ELSE LET found == find_idx_by_name(columns, names[j])
             rest == FilterMapIdx(names, columns, j + 1)
         IN  IF found = {} THEN rest
             ELSE <<CHOOSE i \in found : TRUE>> \o rest

\* idx.sort_unstable(): the same elements, duplicates included, ascending
RECURSIVE SortUnstable(_)
SortUnstable(idx) ==
    IF idx = <<>> THEN <<>>
    ELSE LET k == CHOOSE k \in 1..Len(idx) : \A m \in 1..Len(idx) : idx[k] <= idx[m]
         IN  <<idx[k]>> \o SortUnstable(SubSeq(idx, 1, k - 1)
                                          \o SubSeq(idx, k + 1, Len(idx)))

\* the join_column_idx set_join_series leaves: computed from the names of
\* the join series and the columns of this batch when it is None, kept
\* otherwise
JoinColumnIdx(join_column_idx, join_columns_right, columns) ==
    IF ~join_column_idx.some
    THEN Some(SortUnstable(FilterMapIdx(join_columns_right, columns, 1)))
    ELSE join_column_idx

\* InnerJoinProbe::set_join_series; fail = j: expression j returns Err and
\* join_column_idx is not reached
probe_set_join_series(op, chunk, n, fail) ==
    LET pushed == IF fail = 0 THEN n ELSE fail - 1
    IN  [ok |-> fail = 0,
         join_series |-> [j \in 1..pushed |-> Evaluate(j, chunk.data)],
         join_column_idx |->
            IF fail = 0
            THEN JoinColumnIdx(op.join_column_idx, op.join_columns_right,
                               chunk.columns)
            ELSE op.join_column_idx]

\* one turn of the loop of execute: probe row r against its partition; the
\* (join_tuples_left, join_tuples_right) it can extend left and right to
ProbeRow(op, join_series, hashes, r, n, left, right) ==
    LET h == hashes[r]
        df_idx_right == r - 1
        current_tuple_buf == [j \in 1..n |-> join_series[j][r]]
        partition == Partition(h, op.hash_tables)
        found == from_hash(op.hash_tables[partition + 1], h,
                           op.materialized_join_cols,
                           current_tuple_buf, Len(current_tuple_buf))
    IN  {[left |-> left \o entry.entry.val,
          right |-> right \o [i \in 1..Len(entry.entry.val) |-> df_idx_right]] :
            entry \in found}

\* the loop of execute over the rows of the probe batch, from row r on:
\* the (join_tuples_left, join_tuples_right) it can end with
RECURSIVE ProbeRows(_, _, _, _, _, _, _)
ProbeRows(op, join_series, hashes, r, n, left, right) ==
    IF r > Len(hashes)
    THEN {[left |-> left, right |-> right]}
    ELSE UNION {ProbeRows(op, join_series, hashes, r + 1, n, t.left, t.right) :
                  t \in ProbeRow(op, join_series, hashes, r, n, left, right)}

\* _take_chunked_unchecked_seq of one ChunkId
TakeChunked(left_df, loc) ==
    IF loc[1] < Len(left_df) /\ loc[2] < Len(left_df[loc[1] + 1].data)
    THEN left_df[loc[1] + 1].data[loc[2] + 1]
    ELSE <<>>

\* the rows of the joined frame: row i is the build row at
\* join_tuples_left[i] beside the probe row at join_tuples_right[i]
Gather(left_df, data, left, right) ==
    [i \in 1..Len(left) |->
        [build |-> TakeChunked(left_df, left[i]),
         probe |-> data[right[i] + 1]]]

\* the columns of the stacked build table: those of its batches
LeftColumns(left_df) ==
    IF left_df = <<>> THEN <<>> ELSE left_df[1].columns

\* a column of a gathered frame: its name, and the side it was gathered from
Column(name, side) == [name |-> name, side |-> side]

\* for idx in ids.iter().rev() { cols.remove(*idx) }, from ids[k] down;
\* Vec::remove panics on an index past the end
RECURSIVE RemoveRev(_, _, _)
RemoveRev(cols, ids, k) ==
    IF k = 0 THEN [ok |-> TRUE, cols |-> cols]
    ELSE IF ids[k] >= Len(cols) THEN [ok |-> FALSE, cols |-> cols]
    ELSE RemoveRev(SubSeq(cols, 1, ids[k]) \o SubSeq(cols, ids[k] + 2, Len(cols)),
                   ids, k - 1)

\* the columns of right_df: the batch's, less those at join_column_idx
RightColumns(columns, join_column_idx) ==
    IF join_column_idx.some
    THEN RemoveRev(columns, join_column_idx.idx, Len(join_column_idx.idx))
    ELSE [ok |-> TRUE, cols |-> columns]

\* _finish_join(df_left, df_right, suffix) on the columns: every column of
\* df_right whose name df_left has is renamed name + suffix, then df_right
\* is stacked behind df_left; a name that is there twice is an error
_finish_join(df_left, df_right, suffix) ==
    LET left_names == {df_left[i].name : i \in 1..Len(df_left)}
        renamed == [i \in 1..Len(df_right) |->
                      IF df_right[i].name \in left_names
                      THEN [df_right[i] EXCEPT !.name = @ \o suffix]
                      ELSE df_right[i]]
        stacked == df_left \o renamed
    IN  [ok |-> \A i \in 1..Len(stacked), j \in 1..Len(stacked) :
                    stacked[i].name = stacked[j].name => i = j,
         columns |-> stacked]

\* a mutant of FinishSides: the build frame is always passed first
FinishSides_build_first(swapped, left_df, right_df) == <<left_df, right_df>>

\* let (a, b) = if self.swapped { (right_df, left_df) } else { (left_df, right_df) }
FinishSides(swapped, left_df, right_df) ==
    IF swapped THEN <<right_df, left_df>> ELSE <<left_df, right_df>>

\* the end of execute, after the scan recorded (left, right): the gather of
\* the two frames and _finish_join
Finish(op, chunk, left, right) ==
    LET scanned == [op EXCEPT !.join_tuples_left = left,
                              !.join_tuples_right = right]
        left_df == [i \in 1..Len(LeftColumns(op.left_df)) |->
                      Column(LeftColumns(op.left_df)[i], "build")]
        kept == RightColumns(chunk.columns, op.join_column_idx)
        right_df == [i \in 1..Len(kept.cols) |-> Column(kept.cols[i], "probe")]
        ab == FinishSides(op.swapped, left_df, right_df)
        joined == _finish_join(ab[1], ab[2], op.suffix)
    IN  IF ~kept.ok
        THEN [op |-> scanned, status |-> "panic", out |-> <<>>, columns |-> <<>>]
        ELSE IF ~joined.ok
        THEN [op |-> scanned, status |-> "Err", out |-> <<>>, columns |-> <<>>]
        ELSE [op |-> scanned, status |-> "Finished",
              out |-> Gather(op.left_df, chunk.data, left, right),
              columns |-> joined.columns]

\* a mutant of execute: the recorded pairs of the call before are kept
execute_no_clear(op, chunk, n, fail) ==
    LET sjs == probe_set_join_series(op, chunk, n, fail)
        hashes == hash_series(sjs.join_series, op.hb)
        set == [op EXCEPT !.join_column_idx = sjs.join_column_idx]
    IN  IF ~sjs.ok
        THEN {[op |-> set, status |-> "Err", out |-> <<>>, columns |-> <<>>]}
        ELSE IF Len(op.hash_tables) = 0
        THEN {[op |-> set, status |-> "undefined", out |-> <<>>, columns |-> <<>>]}
        ELSE {Finish(set, chunk, t.left, t.right) :
                t \in ProbeRows(set, sjs.join_series, hashes, 1, n,
                                op.join_tuples_left, op.join_tuples_right)}

\* InnerJoinProbe::execute: the (operator state, result, output rows, output
\* columns) it can end with. A failed evaluation returns Err with the lists
\* cleared; with no partition (the operator of a sink finalized twice) the
\* unchecked access to the partition is undefined.
execute(op, chunk, n, fail) ==
    LET cleared == [op EXCEPT !.join_tuples_left = <<>>,
                              !.join_tuples_right = <<>>]
        sjs == probe_set_join_series(cleared, chunk, n, fail)
        hashes == hash_series(sjs.join_series, op.hb)
        set == [cleared EXCEPT !.join_column_idx = sjs.join_column_idx]
    IN  IF ~sjs.ok
        THEN {[op |-> set, status |-> "Err", out |-> <<>>, columns |-> <<>>]}
        ELSE IF Len(op.hash_tables) = 0
        THEN {[op |-> set, status |-> "undefined", out |-> <<>>, columns |-> <<>>]}
        ELSE {Finish(set, chunk, t.left, t.right) :
                t \in ProbeRows(set, sjs.join_series, hashes, 1, n, <<>>, <<>>)}

\* ------------------------------------------------------------------ actions

Call(op, self, other, status) ==
    [op |-> op, sink |-> self, other |-> other, status |-> status]

\* a clone that was not split off yet
NoClone ==
    [pc |-> "unborn", chunk |-> DataChunk(<<>>, <<>>), r |-> 0,
     join_series |-> <<>>, hashes |-> <<>>,
     join_tuples_left |-> <<>>, join_tuples_right |-> <<>>,
     join_column_idx |-> None, status |-> "", out |-> <<>>, columns |-> <<>>]

\* one sink made by new: the join-key expressions of both sides are named
\* KeyNames, the batches hold exactly these columns
Init ==
    /\ nkeys \in 1..MaxKeys
    /\ join_type \in JoinTypes
    /\ \E hb \in 0..MaxSeed :
         sinks = [i \in SinkIds |->
                    IF i = 1
                    THEN new("_x", join_type, FALSE,
                             KeyNames(nkeys), KeyNames(nkeys), hb)
                    ELSE NoSink("unborn")]
    /\ probe = NoProbe
    /\ out = <<>>
    /\ out_cols = <<>>
    /\ clones = [c \in CloneIds |-> NoClone]
    /\ res = Call("new", 1, 0, "ok")
    /\ ncalls = 0

RECURSIVE RowCount(_)
RowCount(chunks) ==
    IF chunks = <<>> THEN 0
    ELSE Len(chunks[1].data) + RowCount(Tail(chunks))

RECURSIVE Retained(_)
Retained(ids) ==
    IF ids = {} THEN 0
    ELSE LET i == CHOOSE x \in ids : TRUE
         IN  RowCount(sinks[i].chunks) + Retained(ids \ {i})

\* the batches the pipeline can still hand to a sink
Batches ==
    LET room == MaxBuildRows - Retained(SinkIds)
    IN  {d \in Frames(nkeys) : Len(d) <= room}

\* An Err returned by sink ends the pipeline: nothing is called after it.
Aborted == res.op = "sink" /\ res.status = "Err"

\* The pipeline runs the build phase to its end before it finalizes: once an
\* operator exists, a sink is called again only if it is the finalized one.
Callable(i) ==
    /\ ~Aborted
    /\ sinks[i].st = "active"
    /\ (probe.live => Len(sinks[i].hash_tables) = 0)

\* sink(chunk) on sink i, every join-key expression evaluating
Sink(i) ==
    /\ Callable(i)
    /\ ncalls < MaxBatches
    /\ \E data \in Batches :
         \E r \in sink(sinks[i], DataChunk(data, KeyNames(nkeys)),
                       nkeys, 0) :
            /\ sinks' = [sinks EXCEPT ![i] = r.self]
            /\ res' = Call("sink", i, 0, r.status)
    /\ ncalls' = ncalls + 1
    /\ UNCHANGED <<nkeys, join_type, probe, out, out_cols, clones>>

\* sink(chunk) on sink i, the evaluation of join-key expression fail failing
SinkErr(i) ==
    /\ Callable(i)
    /\ ncalls < MaxBatches
    /\ \E data \in Batches, fail \in 1..nkeys :
         \E r \in sink(sinks[i], DataChunk(data, KeyNames(nkeys)),
                       nkeys, fail) :
            /\ sinks' = [sinks EXCEPT ![i] = r.self]
            /\ res' = Call("sink", i, 0, r.status)
    /\ ncalls' = ncalls + 1
    /\ UNCHANGED <<nkeys, join_type, probe, out, out_cols, clones>>

\* split on sink i gives the next sink of the lineage
Split(i) ==
    /\ Callable(i)
    /\ \E j \in SinkIds :
        /\ sinks[j].st = "unborn"
        /\ \A k \in SinkIds : k < j => sinks[k].st # "unborn"
        /\ sinks' = [sinks EXCEPT ![j] = split(sinks[i])]
        /\ res' = Call("split", i, j, "ok")
    /\ UNCHANGED <<nkeys, join_type, probe, out, ncalls, out_cols, clones>>

\* sinks[i].combine(sinks[j]); the box of sinks[j] is dropped
Combine(i, j) ==
    /\ i # j
    /\ Callable(i)
    /\ Callable(j)
    /\ \E s \in combine(sinks[i], sinks[j], nkeys) :
         sinks' = [sinks EXCEPT ![i] = s, ![j] = NoSink("moved")]
    /\ res' = Call("combine", i, j, "ok")
    /\ UNCHANGED <<nkeys, join_type, probe, out, ncalls, out_cols, clones>>

\* finalize on sink i, the one sink the lineage was reduced to
Finalize(i) ==
    /\ Callable(i)
    /\ \A j \in SinkIds \ {i} : sinks[j].st # "active"
    /\ LET f == finalize(sinks[i], sinks[i].join_type)
       IN  /\ sinks' = [sinks EXCEPT ![i] = f.self]
           /\ probe' = IF f.status = "Operator" THEN f.operator ELSE probe
           /\ res' = Call("finalize", i, 0, f.status)
    /\ UNCHANGED <<nkeys, join_type, out, ncalls, out_cols, clones>>

\* execute(chunk) on the probe operator for a chunk of batches, every
\* expression evaluating
ExecuteOn(batches) ==
    /\ ~Aborted
    /\ probe.live
    /\ \E chunk \in batches :
         \E r \in execute(probe, chunk, nkeys, 0) :
            /\ probe' = r.op
            /\ out' = r.out
            /\ out_cols' = r.columns
            /\ res' = [op |-> "execute", sink |-> 0, other |-> chunk.data,
                       status |-> r.status, columns |-> chunk.columns]
    /\ UNCHANGED <<nkeys, join_type, sinks, clones>>

\* execute(chunk), the evaluation of join-key expression fail failing
ExecuteErrOn(batches) ==
    /\ ~Aborted
    /\ probe.live
    /\ \E chunk \in batches, fail \in 1..nkeys :
         \E r \in execute(probe, chunk, nkeys, fail) :
            /\ probe' = r.op
            /\ out' = r.out
            /\ out_cols' = r.columns
            /\ res' = Call("execute", 0, 0, r.status)
    /\ UNCHANGED <<nkeys, join_type, sinks, clones>>

\* the probe batches whose columns are the join-key columns
KeyBatches == {DataChunk(d, KeyNames(nkeys)) : d \in Frames(nkeys)}

Execute == ExecuteOn(KeyBatches) /\ UNCHANGED ncalls

\* what a failed evaluation leaves does not depend on the rows of the batch:
\* batches of one row stand for all
ExecuteErr == ExecuteErrOn({b \in KeyBatches : Len(b.data) = 1}) /\ UNCHANGED ncalls

Next ==
    \/ \E i \in SinkIds : Sink(i)
    \/ \E i \in SinkIds : SinkErr(i)
    \/ \E i \in SinkIds : Split(i)
    \/ \E i, j \in SinkIds : Combine(i, j)
    \/ \E i \in SinkIds : Finalize(i)
    \/ Execute
    \/ ExecuteErr

Spec == Init /\ [][Next]_vars

\* the behaviours in which every evaluation of a join-key expression succeeds
NextOk ==
    \/ \E i \in SinkIds : Sink(i)
    \/ \E i \in SinkIds : Split(i)
    \/ \E i, j \in SinkIds : Combine(i, j)
    \/ \E i \in SinkIds : Finalize(i)
    \/ Execute

SpecOk == Init /\ [][NextOk]_vars


\* ----------------------------------------------- the probe phase by columns
\* The operator of one sink that was given one batch, for every
\* configuration: the names of the probe-side join-key results, the swapped
\* flag, the columns of the build batch. It is then called with batches of
\* every column layout.

OneRow(n) == {d \in Frames(n) : Len(d) = 1}

Ones(n) == [j \in 1..n |-> 1]

InitProbe ==
    /\ nkeys \in 1..MaxKeys
    /\ join_type = "Inner"
    /\ \E swapped \in BOOLEAN, join_columns_right \in [1..nkeys -> NameSet],
          columns \in Layouts :
         \E r \in sink(new("_x", "Inner", swapped, KeyNames(nkeys),
                           join_columns_right, 0),
                       DataChunk(<<Ones(nkeys)>>, columns), nkeys, 0) :
            LET f == finalize(r.self, r.self.join_type)
            IN  /\ sinks = [i \in SinkIds |->
                              IF i = 1 THEN f.self ELSE NoSink("unborn")]
                /\ probe = f.operator
    /\ out = <<>>
    /\ out_cols = <<>>
    /\ clones = [c \in CloneIds |-> NoClone]
    /\ res = Call("finalize", 1, 0, "Operator")
    /\ ncalls = 0

\* the probe batches of one row, in every column layout
LayoutBatches == {DataChunk(d, c) : d \in OneRow(nkeys), c \in Layouts}

\* the calls made on the operator are counted, up to MaxCalls
Counted == ncalls' = IF ncalls < MaxCalls THEN ncalls + 1 ELSE ncalls

ProbeExecute == ExecuteOn(LayoutBatches) /\ Counted

\* a failed evaluation returns before the batch's columns are looked at
ProbeExecuteErr ==
    ExecuteErrOn({b \in LayoutBatches : b.data = <<Ones(nkeys)>>})
        /\ Counted

NextProbe == ProbeExecute \/ ProbeExecuteErr

SpecProbe == InitProbe /\ [][NextProbe]_vars

\* ------------------------------------------------ the probe phase by clones
\* The operator of one sink is shared: each thread gets a clone from split
\* and calls execute on it, the calls of different threads interleaved one
\* step at a time. probe holds the operator finalize returned: left_df,
\* materialized_join_cols and hash_tables are behind Arc and are the same
\* memory for every clone; clones[c] holds what clone c owns.

TwoRows(n) == {d \in Frames(n) : Len(d) = 2}

InitClones ==
    /\ nkeys \in 1..MaxKeys
    /\ join_type = "Inner"
    /\ \E data \in {d \in TwoRows(nkeys) : d[1] = Ones(nkeys)} :
         \E r \in sink(new("_x", "Inner", FALSE, KeyNames(nkeys),
                           KeyNames(nkeys), 0),
                       DataChunk(data, KeyNames(nkeys)), nkeys, 0) :
            LET f == finalize(r.self, r.self.join_type)
            IN  /\ sinks = [i \in SinkIds |->
                              IF i = 1 THEN f.self ELSE NoSink("unborn")]
                /\ probe = f.operator
    /\ out = <<>>
    /\ out_cols = <<>>
    /\ clones = [c \in CloneIds |-> NoClone]
    /\ res = Call("finalize", 1, 0, "Operator")
    /\ ncalls = 0

\* a mutant of Cloned: every thread works on the buffers of one instance
Cloned_shared(c) == 1

\* #[derive(Clone)] copies the Vec fields: the instance split returns to
\* thread c has buffers of its own
Cloned(c) == c

\* the operator thread c calls: the shared tables, and its own buffers
CloneOp(c) ==
    [probe EXCEPT !.join_tuples_left = clones[Cloned(c)].join_tuples_left,
                  !.join_tuples_right = clones[Cloned(c)].join_tuples_right,
                  !.join_column_idx = clones[Cloned(c)].join_column_idx]

\* InnerJoinProbe::split: self.clone()
CloneSplit(c) ==
    /\ clones[c].pc = "unborn"
    /\ clones' = [clones EXCEPT
                    ![Cloned(c)].join_tuples_left = probe.join_tuples_left,
                    ![Cloned(c)].join_tuples_right = probe.join_tuples_right,
                    ![Cloned(c)].join_column_idx = probe.join_column_idx,
                    ![c].pc = "idle"]
    /\ UNCHANGED <<nkeys, join_type, sinks, probe, out, out_cols, res, ncalls>>

\* execute on clone c up to the loop: the lists are cleared, the join-key
\* expressions evaluated and the rows hashed; a failed evaluation returns Err
CloneBegin(c) ==
    /\ clones[c].pc = "idle"
    /\ \E data \in TwoRows(nkeys) :
       \E fail \in {k \in 0..nkeys : k = 0 \/ data = <<Ones(nkeys), Ones(nkeys)>>} :
         LET chunk == DataChunk(data, KeyNames(nkeys))
             cleared == [CloneOp(c) EXCEPT !.join_tuples_left = <<>>,
                                          !.join_tuples_right = <<>>]
             sjs == probe_set_join_series(cleared, chunk, nkeys, fail)
         IN  clones' = [clones EXCEPT
                 ![Cloned(c)].join_tuples_left = <<>>,
                 ![Cloned(c)].join_tuples_right = <<>>,
                 ![Cloned(c)].join_series = sjs.join_series,
                 ![Cloned(c)].join_column_idx = sjs.join_column_idx,
                 ![Cloned(c)].hashes =
                     IF sjs.ok THEN hash_series(sjs.join_series, probe.hb)
                     ELSE <<>>,
                 ![c].chunk = chunk,
                 ![c].r = 1,
                 ![c].out = <<>>,
                 ![c].columns = <<>>,
                 ![c].status = IF sjs.ok THEN "" ELSE "Err",
                 ![c].pc = IF sjs.ok THEN "scan" ELSE "idle"]
    /\ UNCHANGED <<nkeys, join_type, sinks, probe, out, out_cols, res, ncalls>>

\* one turn of the loop of execute on clone c
CloneScan(c) ==
    /\ clones[c].pc = "scan"
    /\ clones[c].r <= Len(clones[c].chunk.data)
    /\ clones[c].r <= Len(clones[Cloned(c)].hashes)
    /\ \E t \in ProbeRow(CloneOp(c), clones[Cloned(c)].join_series,
                         clones[Cloned(c)].hashes, clones[c].r, nkeys,
                         clones[Cloned(c)].join_tuples_left,
                         clones[Cloned(c)].join_tuples_right) :
         clones' = [clones EXCEPT
                      ![Cloned(c)].join_tuples_left = t.left,
                      ![Cloned(c)].join_tuples_right = t.right,
                      ![c].r = @ + 1]
    /\ UNCHANGED <<nkeys, join_type, sinks, probe, out, out_cols, res, ncalls>>

\* the end of execute on clone c: the frames gathered and joined
CloneEnd(c) ==
    /\ clones[c].pc = "scan"
    /\ clones[c].r > Len(clones[c].chunk.data)
    /\ LET f == Finish(CloneOp(c), clones[c].chunk,
                       clones[Cloned(c)].join_tuples_left,
                       clones[Cloned(c)].join_tuples_right)
       IN  clones' = [clones EXCEPT ![c].status = f.status,
                                    ![c].out = f.out,
                                    ![c].columns = f.columns,
                                    ![c].pc = "idle"]
    /\ UNCHANGED <<nkeys, join_type, sinks, probe, out, out_cols, res, ncalls>>

NextClones ==
    \E c \in CloneIds :
        CloneSplit(c) \/ CloneBegin(c) \/ CloneScan(c) \/ CloneEnd(c)

SpecClones == InitClones /\ [][NextClones]_vars

\* ------------------------------------------------- the sinks of one process
\* Sinks are made by new, each with a configuration of its own, and by
\* split; they are given batches in between.

\* RandomState::default(): the seeds a new RandomState can have, given the
\* seeds of the instances made before (every instance gets keys of its own)
RandomState_default(taken) == (0..MaxSeed) \ taken

InitConfig ==
    /\ nkeys \in 1..MaxKeys
    /\ join_type \in JoinTypes
    /\ sinks = [i \in SinkIds |-> NoSink("unborn")]
    /\ probe = NoProbe
    /\ out = <<>>
    /\ out_cols = <<>>
    /\ clones = [c \in CloneIds |-> NoClone]
    /\ res = Call("", 0, 0, "ok")
    /\ ncalls = 0

\* GenericBuild::new for sink i
NewSink(i) ==
    /\ sinks[i].st = "unborn"
    /\ \A k \in SinkIds : k < i => sinks[k].st # "unborn"
    /\ \E suffix \in Suffixes, swapped \in BOOLEAN,
          hb \in RandomState_default({sinks[k].hb : k \in {m \in SinkIds :
                                                        sinks[m].st = "active"}}) :
         sinks' = [sinks EXCEPT ![i] = new(suffix, join_type, swapped,
                                           KeyNames(nkeys), KeyNames(nkeys), hb)]
    /\ res' = Call("new", i, 0, "ok")
    /\ UNCHANGED <<nkeys, join_type, probe, out, ncalls, out_cols, clones>>

\* sink(chunk) on sink i for a batch of one row
SinkRow(i) ==
    /\ Callable(i)
    /\ ncalls < MaxBatches
    /\ \E data \in OneRow(nkeys) :
         \E r \in sink(sinks[i], DataChunk(data, KeyNames(nkeys)), nkeys, 0) :
            /\ sinks' = [sinks EXCEPT ![i] = r.self]
            /\ res' = Call("sink", i, 0, r.status)
    /\ ncalls' = ncalls + 1
    /\ UNCHANGED <<nkeys, join_type, probe, out, out_cols, clones>>

NextConfig == \E i \in SinkIds : NewSink(i) \/ SinkRow(i) \/ Split(i)

SpecConfig == InitConfig /\ [][NextConfig]_vars

\* ------------------------------------------------------------- properties

\* the key values of the retained row a locator addresses
ActualKey(chunks, loc) == chunks[loc[1] + 1].data[loc[2] + 1]

\* the locators of the rows of the retained batches
RowLocs(chunks) ==
    {loc \in (0..(Len(chunks) - 1)) \X (0..(MaxRows - 1)) :
        loc[2] < Len(chunks[loc[1] + 1].data)}

Range(seq) == {seq[i] : i \in 1..Len(seq)}

\* every holder of a build state: the sinks, and the operator with its table
Builds ==
    {[chunks |-> sinks[i].chunks,
      materialized_join_cols |-> sinks[i].materialized_join_cols,
      hash_tables |-> sinks[i].hash_tables] : i \in SinkIds}
    \cup
    {[chunks |-> probe.left_df,
      materialized_join_cols |-> probe.materialized_join_cols,
      hash_tables |-> probe.hash_tables]}

Entries(b) == UNION {b.hash_tables[p] : p \in 1..Len(b.hash_tables)}

\* the store of b holds, for each retained batch in order, the fragment of
\* every join key in join-key order
StoreAddressing(b) ==
    /\ Len(b.materialized_join_cols) = nkeys * Len(b.chunks)
    /\ \A c \in 0..(Len(b.chunks) - 1), j \in 1..nkeys :
          b.materialized_join_cols[c * nkeys + j] = Evaluate(j, b.chunks[c + 1].data)

\* C8: with n join keys the store holds n fragments per retained batch, and
\* the fragments of retained batch b are at positions [b*n, b*n+n) in
\* join-key order, in every state that successful calls reach.
C8_StoreAddressing == \A b \in Builds : StoreAddressing(b)

C8_Witness ==
    /\ res.op = "combine"
    /\ nkeys = 2
    /\ Len(sinks[res.sink].chunks) = 3
    /\ Len(sinks[res.sink].materialized_join_cols) = 6

\* C9: every entry stored in partition p has hash_to_partition(hash, P) = p,
\* every sink that holds tables holds P of them, and rows with equal key
\* values are in the same-indexed partition whichever sink holds them.
C9_PartitionRouting ==
    /\ \A b \in Builds :
        /\ Len(b.hash_tables) \in {0, _set_partition_size}
        /\ \A p \in 1..Len(b.hash_tables) : \A e \in b.hash_tables[p] :
              hash_to_partition(e.key.hash, _set_partition_size) = p - 1
    /\ \A b1 \in Builds, b2 \in Builds :
         \A p1 \in 1..Len(b1.hash_tables), p2 \in 1..Len(b2.hash_tables) :
           \A e1 \in b1.hash_tables[p1], e2 \in b2.hash_tables[p2] :
             \A l1 \in Range(e1.val), l2 \in Range(e2.val) :
                ActualKey(b1.chunks, l1) = ActualKey(b2.chunks, l2) => p1 = p2

C9_Witness ==
    /\ res.op = "combine"
    /\ \E p \in 1..Len(sinks[res.sink].hash_tables) :
         \E e \in sinks[res.sink].hash_tables[p] :
            /\ p = 2
            /\ \E l1 \in Range(e.val), l2 \in Range(e.val) : l1[1] # l2[1]

\* C10: with a join kind other than inner, finalize fails and no probe
\* operator is ever returned, whatever the sink has ingested.
C10_FinalizeNonInnerFails ==
    join_type # "Inner" =>
        /\ ~probe.live
        /\ (res.op = "finalize" => res.status = "panic")

C10_Witness ==
    /\ join_type # "Inner"
    /\ res.op = "finalize"
    /\ Len(sinks[res.sink].chunks) >= 2


\* no combine has been called: no sink was moved into another
NoCombine == \A i \in SinkIds : sinks[i].st # "moved"

Finished == res.op = "execute" /\ res.status = "Finished"

\* the retained build rows whose key values are K
RowsWithKey(K) ==
    {loc \in RowLocs(probe.left_df) : ActualKey(probe.left_df, loc) = K}

\* the positions of the recorded pairs that belong to probe row r (1-based)
PairsOf(r) ==
    {i \in 1..Len(probe.join_tuples_right) : probe.join_tuples_right[i] = r - 1}

\* C5: on an index built by sink calls on one sink, a probe row with key K
\* is joined with exactly the m retained build rows whose key is K, each of
\* them once.
C5_FanOut ==
    (Finished /\ NoCombine) =>
        /\ Len(out) = Len(probe.join_tuples_left)
        /\ Len(probe.join_tuples_right) = Len(probe.join_tuples_left)
        /\ \A r \in 1..Len(res.other) :
             LET K == res.other[r]
             IN  /\ Cardinality(PairsOf(r)) = Cardinality(RowsWithKey(K))
                 /\ {probe.join_tuples_left[i] : i \in PairsOf(r)} = RowsWithKey(K)
                 /\ \A i \in PairsOf(r) :
                       /\ out[i].probe = K
                       /\ out[i].build =
                            ActualKey(probe.left_df, probe.join_tuples_left[i])

C5_Witness ==
    /\ Finished
    /\ NoCombine
    /\ Len(probe.left_df) >= 2
    /\ \E r \in 1..Len(res.other) :
         /\ Cardinality(RowsWithKey(res.other[r])) = 3
         /\ Cardinality(PairsOf(r)) = 3

\* C6: a probe row whose key values equal those of no retained build row
\* contributes no pair, and a batch with no matching row yields one empty
\* output batch.
C6_NoMatchExcluded ==
    Finished =>
        /\ Len(out) = Len(probe.join_tuples_right)
        /\ \A r \in 1..Len(res.other) :
             RowsWithKey(res.other[r]) = {} => PairsOf(r) = {}
        /\ (\A r \in 1..Len(res.other) : RowsWithKey(res.other[r]) = {})
              => out = <<>>

C6_Witness ==
    /\ Finished
    /\ out = <<>>
    /\ \E r \in 1..Len(res.other) : \E loc \in RowLocs(probe.left_df) :
         /\ ActualKey(probe.left_df, loc) # res.other[r]
         /\ RowHash(probe.hb, ActualKey(probe.left_df, loc))
                = RowHash(probe.hb, res.other[r])

Locs(table) == UNION {Range(e.val) : e \in table}

RECURSIVE TotalLen(_)
TotalLen(table) ==
    IF table = {} THEN 0
    ELSE LET e == CHOOSE x \in table : TRUE
         IN  Len(e.val) + TotalLen(table \ {e})

\* C7: combine appends other's batches to self's, leaves every locator of
\* self as it was, and gives every locator of other (the key of a new entry
\* and every payload element) its batch index plus the number of batches
\* self held, its row index unchanged, so that it addresses the same row.
C7_CombineShifts ==
    [][res'.op = "combine" =>
        LET old == sinks[res'.sink]
            oth == sinks[res'.other]
            merged == sinks'[res'.sink]
            off == Len(old.chunks)
            up(l) == <<l[1] + off, l[2]>>
        IN  /\ merged.chunks = old.chunks \o oth.chunks
            /\ Len(merged.hash_tables) = Len(old.hash_tables)
            /\ \A p \in 1..Len(old.hash_tables) :
                LET a == old.hash_tables[p]
                    b == oth.hash_tables[p]
                    c == merged.hash_tables[p]
                IN  /\ \A e \in a : \E e2 \in c :
                          /\ e2.key = e.key
                          /\ Len(e2.val) >= Len(e.val)
                          /\ SubSeq(e2.val, 1, Len(e.val)) = e.val
                    /\ Locs(c) = Locs(a) \cup {up(l) : l \in Locs(b)}
                    /\ TotalLen(c) = TotalLen(a) + TotalLen(b)
                    /\ \A e2 \in c :
                          \/ \E e \in a : e.key = e2.key
                          \/ \E e \in b :
                                e2.key = Key(e.key.hash, e.val[1][1] + off, e.val[1][2])
                    /\ \A l \in Locs(b) :
                          ActualKey(merged.chunks, up(l)) = ActualKey(oth.chunks, l)
    ]_vars

C7_Witness ==
    /\ res.op = "combine"
    /\ Len(sinks[res.sink].chunks) = 3
    /\ \E e \in Entries(sinks[res.sink]) : e.key.chunk_idx = 2
    /\ \E e \in Entries(sinks[res.sink]) :
         /\ Len(e.val) = 2
         /\ e.val[1][1] = 0
         /\ e.val[2][1] = 1


\* the sinks that sinking chunks[k], chunks[k+1], ... one after another into
\* a sink of S can give
RECURSIVE SinkAll(_, _, _)
SinkAll(S, chunks, k) ==
    IF k > Len(chunks)
    THEN S
    ELSE SinkAll(UNION {{r.self : r \in sink(s, chunks[k], nkeys, 0)} : s \in S},
                 chunks, k + 1)

\* the operators of a single sink that was given all of chunks in order
Sequential(chunks, hb) ==
    {finalize(s, "Inner").operator :
        s \in SinkAll({new(probe.suffix, "Inner", probe.swapped, KeyNames(nkeys),
                           probe.join_columns_right, hb)}, chunks, 1)}

\* the (build locator, probe row) pairs an execute recorded
JoinedPairs(r) ==
    {<<r.op.join_tuples_left[i], r.op.join_tuples_right[i]>> :
        i \in 1..Len(r.op.join_tuples_left)}

\* C1: for every number of join keys, the operator of the sinks of a split
\* lineage, each given a share of the batches and then combined into one,
\* joins every probe batch with the same (build row, probe row) pairs as the
\* operator of a single sink that was given all the batches in order.
C1_SplitCombineEquivalence ==
    (probe.live /\ Len(probe.hash_tables) > 0) =>
        \A P \in Frames(nkeys) :
            \A a \in execute(probe, DataChunk(P, KeyNames(nkeys)), nkeys, 0) :
                \A ref \in Sequential(probe.left_df, probe.hb) :
                    \A b \in execute(ref, DataChunk(P, KeyNames(nkeys)), nkeys, 0) :
                        JoinedPairs(a) = JoinedPairs(b)

\* C2: every read of a locator's key values takes fragments
\* [batch_index*n, batch_index*n+n) of the store at row_index: the comparator
\* of sink and execute says equal exactly for the key values of the row, and
\* the tuple combine materializes for an entry of other is the key values of
\* that entry's rows.
C2_KeyReads ==
    [][ /\ \A b \in Builds : \A e \in Entries(b) : \A t \in Rows(nkeys) :
              compare_fn(e.key, e.key.hash, b.materialized_join_cols, t, nkeys)
                = {t = ActualKey(b.chunks, <<e.key.chunk_idx, e.key.df_idx>>)}
        /\ res'.op = "combine" =>
              \A e \in Entries(sinks[res'.other]) : \A l \in Range(e.val) :
                  TupleBuf(sinks[res'.other], nkeys, e.val)
                    = {ActualKey(sinks[res'.other].chunks, l)}
    ]_vars

\* C3: every locator list holds only rows whose key values are equal in
\* every position, and execute pairs a probe row only with build rows of
\* its own key values.
C3_NoFalsePositive ==
    /\ \A b \in Builds : \A e \in Entries(b) : \A l \in Range(e.val) :
          ActualKey(b.chunks, l)
            = ActualKey(b.chunks, <<e.key.chunk_idx, e.key.df_idx>>)
    /\ Finished => \A i \in 1..Len(out) : out[i].build = out[i].probe

\* C4: a sink call that returns Err leaves the store, the index and the
\* retained batches of every sink as they were.
C4_FailedSinkUnchanged ==
    [][(res'.op = "sink" /\ res'.status = "Err") => sinks' = sinks]_vars

\* a sink on which finalize has returned: its tables were taken
Spent(i) == sinks[i].st = "active" /\ Len(sinks[i].hash_tables) = 0

\* C11: once finalize has returned on a sink, neither a later sink call nor
\* a second finalize on it completes normally: the sink call does not return
\* CanHaveMoreInput and the finalize does not return a probe operator.
C11_SpentAfterFinalize ==
    [][\A i \in SinkIds : (Spent(i) /\ res'.sink = i) =>
          /\ res'.op = "sink" => res'.status # "CanHaveMoreInput"
          /\ res'.op = "finalize" => res'.status # "Operator"]_vars

\* the locator an entry's Key holds
KeyLoc(e) == <<e.key.chunk_idx, e.key.df_idx>>

\* C18: no two entries of an index hold equal join-key values, and the list
\* of the entry of a key holds every retained row with that key.
C18_KeyDedup ==
    \A b \in Builds :
        /\ \A e1 \in Entries(b), e2 \in Entries(b) :
              e1 # e2 => ActualKey(b.chunks, KeyLoc(e1)) # ActualKey(b.chunks, KeyLoc(e2))
        /\ \A e \in Entries(b) : \A loc \in RowLocs(b.chunks) :
              ActualKey(b.chunks, loc) = ActualKey(b.chunks, KeyLoc(e))
                  => loc \in Range(e.val)

\* C19: every (batch_index, row_index) of the retained batches is in exactly
\* one locator list, once, and every locator of the index addresses a
\* retained row (number of locators = number of retained rows).
C19_IndexedOnce ==
    \A b \in Builds :
        /\ Locs(Entries(b)) = RowLocs(b.chunks)
        /\ TotalLen(Entries(b)) = Cardinality(RowLocs(b.chunks))

C19_Witness ==
    /\ res.op = "combine"
    /\ Len(sinks[res.sink].chunks) = 3
    /\ \E e \in Entries(sinks[res.sink]) :
         /\ Len(e.val) = 3
         /\ e.val[1][1] = 0
         /\ e.val[2][1] = 1
         /\ e.val[3][1] = 2

\* the entries of the operator's index that probe row r (1-based) of the
\* batch matches: same hash, and equal in every key position
MatchesOf(r) ==
    LET h == RowHash(probe.hb, res.other[r])
    IN  {e \in probe.hash_tables[Partition(h, probe.hash_tables) + 1] :
            TRUE \in compare_fn(e.key, h, probe.materialized_join_cols,
                                res.other[r], nkeys)}

\* C20: after the scan the two lists have the same length, element i of one
\* belongs to the same match as element i of the other, the probe-row
\* indices are non-decreasing, and the lists hold the matches of the current
\* batch only: the pairs of a probe row are the locator list of one entry
\* that row matches, in the list's order, and nothing else is recorded.
C20_PairingAlignment ==
    Finished =>
        LET left == probe.join_tuples_left
            right == probe.join_tuples_right
        IN  /\ Len(left) = Len(right)
            /\ Len(out) = Len(left)
            /\ \A i \in 1..Len(right) : right[i] < Len(res.other)
            /\ \A i \in 1..(Len(right) - 1) : right[i] <= right[i + 1]
            /\ \A r \in 1..Len(res.other) :
                  IF PairsOf(r) = {}
                  THEN MatchesOf(r) = {}
                  ELSE LET first == CHOOSE i \in PairsOf(r) :
                                        \A m \in PairsOf(r) : i <= m
                       IN  \E e \in MatchesOf(r) :
                             /\ PairsOf(r) = first..(first + Len(e.val) - 1)
                             /\ \A k \in 1..Len(e.val) :
                                   left[first + k - 1] = e.val[k]

C20_Witness ==
    /\ Finished
    /\ Len(res.other) = 2
    /\ Len(probe.join_tuples_right) = 3
    /\ probe.join_tuples_right[1] = 0
    /\ probe.join_tuples_right[3] = 1

\* the (build locator, probe row) pairs of the latest execute
RecordedPairs ==
    {<<probe.join_tuples_left[i], probe.join_tuples_right[i]>> :
        i \in 1..Len(probe.join_tuples_left)}

\* the operators of one sink, configured with the swapped flag negated, that
\* was given the probe batch B as its only batch
SwappedOperators ==
    {finalize(s, "Inner").operator :
        s \in SinkAll({new(probe.suffix, "Inner", ~probe.swapped, KeyNames(nkeys),
                           probe.join_columns_right, probe.hb)},
                      <<DataChunk(res.other, res.columns)>>, 1)}

\* the same two relations joined the other way round: one sink is given the
\* probe batch B as its only batch and its operator is probed with every
\* batch of the build table A; a recorded pair (row b of B, row a of batch c
\* of A) is the pair (A row (c, a), B row b)
SwappedPairs ==
    UNION {UNION {UNION {
        {<<<<c - 1, p[2]>>, p[1][2]>> : p \in JoinedPairs(r)} :
            r \in execute(ref, probe.left_df[c], nkeys, 0)} :
            c \in 1..Len(probe.left_df)} :
            ref \in SwappedOperators}

\* C15: building over A and probing with B joins the same (A row, B row)
\* pairs as building over B and probing with A.
C15_SwapInvariance == Finished => RecordedPairs = SwappedPairs

\* the latest call was an execute whose join-key expressions all evaluated
Executed == res.op = "execute" /\ res.status \in {"Finished", "panic"}

\* the columns of one side in the output of the latest execute
OutSide(side) == SelectSeq(out_cols, LAMBDA c : c.side = side)

\* the columns of the probe batch that no join-key result names
NonKeyColumns ==
    SelectSeq(res.columns, LAMBDA c : c \notin Range(probe.join_columns_right))

\* C12: the probe frame that execute gathers is the probe batch's columns
\* that no join-key result names, in their order (under their name, or their
\* name with the suffix): every non-key column is kept and no join-key
\* column of the probe side is in the output.
C12_ColumnDrop ==
    Executed =>
        /\ res.status = "Finished"
        /\ Len(OutSide("probe")) = Len(NonKeyColumns)
        /\ \A i \in 1..Len(NonKeyColumns) :
              OutSide("probe")[i].name
                \in {NonKeyColumns[i], NonKeyColumns[i] \o probe.suffix}

\* what execute gives for the latest batch on the operator as finalize
\* returned it, no call made before
FreshOutputs ==
    {[status |-> r.status, out |-> r.out, columns |-> r.columns] :
        r \in execute([probe EXCEPT !.join_column_idx = None,
                                    !.join_tuples_left = <<>>,
                                    !.join_tuples_right = <<>>],
                      DataChunk(res.other, res.columns), nkeys, 0)}

LatestOutput == [status |-> res.status, out |-> out, columns |-> out_cols]

\* C13 as stated: the output of execute(X) is the same whatever execute
\* calls the instance performed before, on batches of any column layout.
C13_Stateless == Executed => LatestOutput \in FreshOutputs

\* the join-column positions that the columns of the latest batch give
OwnIdx ==
    Some(SortUnstable(FilterMapIdx(probe.join_columns_right, res.columns, 1)))

\* C13 amended: the output of execute(X) is the same whatever execute calls
\* (successful or failed) the instance performed before, provided the
\* join-column positions the instance holds are those of X's own column
\* layout, as they are when every batch has the column layout of the first.
C13_StatelessSameLayout ==
    (Executed /\ probe.join_column_idx = OwnIdx)
        => LatestOutput \in FreshOutputs

C13_Witness ==
    /\ Executed
    /\ ncalls = MaxCalls
    /\ probe.join_column_idx = OwnIdx
    /\ Len(probe.join_column_idx.idx) = 1
    /\ Len(res.columns) = 2
    /\ Len(out) = 1
    /\ Len(OutSide("probe")) = 1

\* the names of the build table's columns and of the columns that execute
\* kept of the probe batch
BuildNames == Range(LeftColumns(probe.left_df))
ProbeNames == {OutSide("probe")[i].name : i \in 1..Len(OutSide("probe"))}
OutNames(side) == {OutSide(side)[i].name : i \in 1..Len(OutSide(side))}

SequentialOutputs(c) ==
    {[status |-> x.status, out |-> x.out, columns |-> x.columns] :
        x \in execute([probe EXCEPT
                          !.join_column_idx = clones'[c].join_column_idx],
                      clones[c].chunk, nkeys, 0)}

\* C16: a step of execute on a clone leaves the shared index, store and
\* build table as they were and writes the buffers of that clone only, and
\* the output of every call, however the calls of the clones interleave, is
\* an output of the same call run alone.
C16_RaceFree ==
    [][/\ probe' = probe
       /\ \A c \in CloneIds :
            /\ clones'[c].pc # clones[c].pc \/ clones'[c].r # clones[c].r
                  => \A d \in CloneIds \ {c} : clones'[d] = clones[d]
            /\ (clones[c].pc = "scan" /\ clones'[c].pc = "idle")
                  => [status |-> clones'[c].status, out |-> clones'[c].out,
                      columns |-> clones'[c].columns] \in SequentialOutputs(c)]_vars

\* both clones are inside execute, on different batches: clone 1 has
\* scanned its two rows, clone 2 one, and each has recorded pairs
C16_Witness ==
    /\ clones[1].pc = "scan"
    /\ clones[1].r = 3
    /\ Len(clones[1].join_tuples_left) >= 2
    /\ clones[2].pc = "scan"
    /\ clones[2].r = 2
    /\ clones[2].chunk # clones[1].chunk
    /\ Len(clones[2].join_tuples_left) >= 1

\* the fields of a sink that new is given
Config(s) ==
    <<s.join_columns_left, s.join_columns_right, s.join_type, s.swapped, s.suffix>>

====
